---- MODULE Spec2Model ----
(***************************************************************************)
(* Dispatch pipeline of the notification service: submission               *)
(* (NotificationController.sendNotification), the transaction store        *)
(* (TransactionTrackingService), the BullMQ queues configured in           *)
(* QueueModule, and the worker of the priority queue                       *)
(* (PriorityNotificationProcessor.process).                                *)
(*                                                                         *)
(* Every await of the TypeScript code is a suspension point, so each       *)
(* handler is a small process whose steps are the database / broker /      *)
(* provider calls it awaits.                                               *)
(*                                                                         *)
(* Beside the pipeline: the preferences API (UserPreferencesService under  *)
(* concurrent callers) and the worker's error classifier, each with a      *)
(* specification of its own (SpecSubmit, SpecPreferences, SpecClassify),   *)
(* and bulk submission with the pickup order of its jobs (SpecBulk).       *)
(* SpecHttp puts the ValidationPipe of main.ts in front of                 *)
(* sendNotification, and SpecBatches is the batch loop of bulk submission  *)
(* with its real batch size, the callbacks of a batch counted.             *)
(*                                                                         *)
(* The worker of 'notification-queue' (queue/notification.processor) is    *)
(* not among the sources: its jobs are enqueued and stay waiting.  The     *)
(* store is taken to be reliable (no Prisma call rejects).                 *)
(***************************************************************************)
EXTENDS Integers, Sequences, FiniteSets, TLC

(***************************************************************************)
(* Bounds of the model.                                                    *)
(***************************************************************************)
\* number of notifications submitted in one behaviour
MaxTx == 1
\* values 0..MaxEnvRetry of the environment variable MAX_RETRY_ATTEMPTS
MaxEnvRetry == 3
\* how many times the broker finds one job stalled and delivers it again
MaxStalls == 2
\* worker slots of the priority queue (PRIORITY_QUEUE_CONCURRENCY)
MaxWorkers == 2
\* callers of getPreferences that run at the same time
MaxCallers == 2
\* notifications submitted through sendBulkNotifications in one behaviour
MaxBulkTx == 2
\* full batches of the longest bulk request (it has one notification more)
MaxBatches == 2

(***************************************************************************)
(* Enumerations (common/enums/notification.enums, used by name).           *)
(***************************************************************************)
PENDING == "PENDING"
QUEUED == "QUEUED"
PROCESSING == "PROCESSING"
SENT == "SENT"
FAILED == "FAILED"
RETRY == "RETRY"
DEAD_LETTER == "DEAD_LETTER"

EMAIL == "EMAIL"
SMS == "SMS"
WHATSAPP == "WHATSAPP"
PUSH == "PUSH"
Channels == {EMAIL, SMS, WHATSAPP, PUSH}

\* NotificationPriority
LOW == 1
MEDIUM == 2
HIGH == 3
URGENT == 4

\* JS null / undefined of a string-valued field; both are falsy, as is "".
\* An absent number-valued field is written 0, which is falsy too.
Null == ""

Users == {"u1"}

(***************************************************************************)
(* Provider errors. An error object has an optional code, an optional      *)
(* statusCode, an optional message and the provider tag the provider's     *)
(* catch block adds. The message is kept as text; Includes gives the       *)
(* result of message?.includes(keyword), false when the message is absent. *)
(***************************************************************************)
Keywords == {"timeout", "network", "rate limit", "service unavailable",
             "unauthorized", "forbidden", "invalid", "not found", "bad request"}

MessageKeywords(message) ==
    CASE message = "connect timeout"       -> {"timeout"}
      [] message = "network unreachable"   -> {"network"}
      [] message = "rate limit exceeded"   -> {"rate limit"}
      [] message = "service unavailable"   -> {"service unavailable"}
      [] message = "unauthorized"          -> {"unauthorized"}
      [] message = "forbidden"             -> {"forbidden"}
      [] message = "invalid recipient"     -> {"invalid"}
      [] message = "number not found"      -> {"not found"}
      [] message = "bad request"           -> {"bad request"}
      [] message = "invalid: rate limit"   -> {"invalid", "rate limit"}
      [] OTHER                             -> {}

Includes(message, keyword) ==
    message # Null /\ keyword \in MessageKeywords(message)

Error(code, statusCode, message, provider) ==
    [code |-> code, statusCode |-> statusCode, message |-> message,
     provider |-> provider]

\* PriorityNotificationProcessor.isRetryableError
isRetryableError(error) ==
    IF \/ error.code = "ETIMEDOUT"
       \/ error.code = "ECONNREFUSED"
       \/ error.code = "ENOTFOUND"
       \/ Includes(error.message, "timeout")
       \/ Includes(error.message, "rate limit")
       \/ error.statusCode = 429
       \/ error.statusCode = 503
    THEN TRUE
    ELSE IF \/ error.statusCode = 401
            \/ error.statusCode = 403
            \/ error.statusCode = 400
            \/ Includes(error.message, "invalid")
            \/ Includes(error.message, "not found")
         THEN FALSE
         ELSE TRUE

\* isRetryableError of common/utils/error-utils.ts
errorUtilsIsRetryableError(error) ==
    IF \/ error.code = "ETIMEDOUT"
       \/ error.code = "ECONNREFUSED"
       \/ error.code = "ENOTFOUND"
       \/ error.code = "ECONNRESET"
       \/ Includes(error.message, "timeout")
       \/ Includes(error.message, "network")
    THEN TRUE
    ELSE IF \/ error.statusCode = 429
            \/ error.statusCode = 503
            \/ error.statusCode = 502
            \/ Includes(error.message, "rate limit")
            \/ Includes(error.message, "service unavailable")
         THEN TRUE
    ELSE IF \/ error.statusCode = 401
            \/ error.statusCode = 403
            \/ Includes(error.message, "unauthorized")
            \/ Includes(error.message, "forbidden")
         THEN FALSE
    ELSE IF \/ error.statusCode = 400
            \/ Includes(error.message, "invalid")
            \/ Includes(error.message, "not found")
            \/ Includes(error.message, "bad request")
         THEN FALSE
    ELSE TRUE

\* TransactionTrackingService.determineErrorType
determineErrorType(error, retryable) ==
    IF error.code = "ETIMEDOUT" \/ error.code = "ECONNREFUSED"
    THEN "NETWORK_ERROR"
    ELSE IF error.statusCode = 429
    THEN "RATE_LIMIT"
    ELSE IF error.statusCode = 401 \/ error.statusCode = 403
    THEN "AUTHENTICATION_ERROR"
    ELSE IF error.statusCode = 400 \/ Includes(error.message, "invalid")
    THEN "INVALID_DATA"
    ELSE IF error.provider
    THEN "PROVIDER_ERROR"
    ELSE IF retryable THEN "RETRYABLE" ELSE "NON_RETRYABLE"

\* The errors the providers raise in the pipeline's behaviours: a 503
\* (retryable) and a 401 (not retryable), tagged by the provider's catch block.
ProviderErrors ==
    { Error("", 503, "service unavailable", TRUE),
      Error("", 401, "unauthorized", TRUE) }

NoError == Error("", 0, Null, FALSE)

\* What SmsProviderService.send and WhatsAppProviderService.send throw when
\* the Twilio client is null: {...new Error('Twilio client not
\* initialized'), provider: 'twilio', recipient}. The spread copies the
\* enumerable own properties of the Error, which has none: the object has
\* no message, no code and no statusCode.
TwilioNotInitialized == Error(Null, 0, Null, TRUE)

(***************************************************************************)
(* Store: TransactionTrackingService over the notificationTransaction and  *)
(* errorLog tables.                                                        *)
(***************************************************************************)
\* createTransaction: the row written for a submission; retryCount,
\* failureReason, sentAt and failedAt take the column defaults. metadata is
\* the set of keys of notification.metadata || {}.
createTransaction(transactionId, userId, notification, maxRetryAttempts) ==
    [transactionId |-> transactionId,
     userId        |-> userId,
     channel       |-> notification.channel,
     status        |-> PENDING,
     priority      |-> IF notification.priority # 0
                       THEN notification.priority ELSE 1,
     metadata      |-> IF "metadata" \in DOMAIN notification
                       THEN notification.metadata ELSE {},
     maxRetries    |-> maxRetryAttempts,
     retryCount    |-> 0,
     failureReason |-> Null,
     sentAt        |-> FALSE,
     failedAt      |-> FALSE]

\* updateStatus storing {providerResponse} without the existing metadata
updateStatusReplacingMetadata(row, status, failureReason, providerResponse, existing) ==
    LET r1 == [row EXCEPT !.status = status]
        r2 == IF status = SENT
              THEN [r1 EXCEPT !.sentAt = TRUE, !.failureReason = Null]
              ELSE IF status = FAILED \/ status = DEAD_LETTER
              THEN [r1 EXCEPT !.failedAt = TRUE,
                              !.failureReason = IF failureReason # Null
                                                THEN failureReason
                                                ELSE @]
              ELSE IF status = RETRY
              THEN [r1 EXCEPT !.retryCount = @ + 1]
              ELSE r1
    IN  IF providerResponse
        THEN [r2 EXCEPT !.metadata = {"providerResponse"}]
        ELSE r2

\* updateStatus without the line updateData.failureReason = null
updateStatusKeepingFailureReason(row, status, failureReason, providerResponse, existing) ==
    LET r1 == [row EXCEPT !.status = status]
        r2 == IF status = SENT
              THEN [r1 EXCEPT !.sentAt = TRUE]
              ELSE IF status = FAILED \/ status = DEAD_LETTER
              THEN [r1 EXCEPT !.failedAt = TRUE,
                              !.failureReason = IF failureReason # Null
                                                THEN failureReason
                                                ELSE @]
              ELSE IF status = RETRY
              THEN [r1 EXCEPT !.retryCount = @ + 1]
              ELSE r1
    IN  IF providerResponse
        THEN [r2 EXCEPT !.metadata = existing \cup {"providerResponse"}]
        ELSE r2

\* updateStatus: the row after prisma.update({data: updateData}).
\* providerResponse is whether a (truthy) provider result was passed;
\* existing is the metadata read by the findUnique that precedes the update.
updateStatus(row, status, failureReason, providerResponse, existing) ==
    LET r1 == [row EXCEPT !.status = status]
        r2 == IF status = SENT
              THEN [r1 EXCEPT !.sentAt = TRUE, !.failureReason = Null]
              ELSE IF status = FAILED \/ status = DEAD_LETTER
              THEN [r1 EXCEPT !.failedAt = TRUE,
                              !.failureReason = IF failureReason # Null
                                                THEN failureReason
                                                ELSE @]
              ELSE IF status = RETRY
              THEN [r1 EXCEPT !.retryCount = @ + 1]
              ELSE r1
    IN  IF providerResponse
        THEN [r2 EXCEPT !.metadata = existing \cup {"providerResponse"}]
        ELSE r2

\* logError: the errorLog row created for a failure
logError(transactionId, error, retryable) ==
    [transactionId |-> transactionId,
     errorType     |-> determineErrorType(error, retryable),
     errorMessage  |-> IF error.message # Null THEN error.message
                       ELSE "Unknown error",
     retryable     |-> retryable]

(***************************************************************************)
(* PreferenceStore: UserPreferencesService over notificationPreferences.   *)
(***************************************************************************)
\* createDefaultPreferences enabling every channel
createDefaultPreferencesAllEnabled(userId) ==
    [userId          |-> userId,
     emailEnabled    |-> TRUE,
     smsEnabled      |-> TRUE,
     whatsappEnabled |-> TRUE,
     pushEnabled     |-> TRUE,
     emailPriority   |-> 1,
     smsPriority     |-> 2,
     whatsappPriority |-> 3,
     pushPriority    |-> 4]

\* createDefaultPreferences: the row created on first read
createDefaultPreferences(userId) ==
    [userId          |-> userId,
     emailEnabled    |-> TRUE,
     smsEnabled      |-> FALSE,
     whatsappEnabled |-> FALSE,
     pushEnabled     |-> FALSE,
     emailPriority   |-> 1,
     smsPriority     |-> 2,
     whatsappPriority |-> 3,
     pushPriority    |-> 4]

\* getPreferredChannels pushing the channels in the opposite order
getPreferredChannelsPushFirst(preferences) ==
    (IF preferences.pushEnabled THEN <<PUSH>> ELSE <<>>)
    \o (IF preferences.whatsappEnabled THEN <<WHATSAPP>> ELSE <<>>)
    \o (IF preferences.smsEnabled THEN <<SMS>> ELSE <<>>)
    \o (IF preferences.emailEnabled THEN <<EMAIL>> ELSE <<>>)

\* getPreferredChannels over a row: the enabled channels, in push order
getPreferredChannels(preferences) ==
    (IF preferences.emailEnabled THEN <<EMAIL>> ELSE <<>>)
    \o (IF preferences.smsEnabled THEN <<SMS>> ELSE <<>>)
    \o (IF preferences.whatsappEnabled THEN <<WHATSAPP>> ELSE <<>>)
    \o (IF preferences.pushEnabled THEN <<PUSH>> ELSE <<>>)

\* getChannelPriority over a row
getChannelPriority(preferences, channel) ==
    CASE channel = EMAIL    -> preferences.emailPriority
      [] channel = SMS      -> preferences.smsPriority
      [] channel = WHATSAPP -> preferences.whatsappPriority
      [] channel = PUSH     -> preferences.pushPriority
      [] OTHER              -> 1

(***************************************************************************)
(* State.                                                                  *)
(***************************************************************************)
VARIABLES
    maxRetryAttempts, \* process.env.MAX_RETRY_ATTEMPTS, read by the queue
                      \* options and by createTransaction
    transactions,     \* notificationTransaction table; transactionId = index
    errorLogs,        \* errorLog table, in creation order
    preferences,      \* notificationPreferences table (set of rows)
    jobs,             \* jobs of the two notification queues; jobs[i] is the
                      \* job with jobId = transactionId = i
    request,          \* the submission in progress
    workers,          \* invocations of process() in progress, by worker slot
    providerCalls,    \* history: per transaction, how many provider calls
                      \* made for it resolved (ok) and rejected (failed)
    deadLetterQueue,  \* jobs of dead-letter-queue (set of jobIds)
    getCalls,         \* calls of UserPreferencesService.getPreferences in
                      \* progress, by caller
    classified,       \* the last error handed to the worker's classifier
                      \* and to logError, with what they returned
    bulk,             \* the sendBulkNotifications request in progress
    batches           \* the batch loop of sendBulkNotifications, by counts

\* the state outside the dispatch pipeline
sideVars == <<deadLetterQueue, getCalls, classified, bulk, batches>>

vars == <<maxRetryAttempts, transactions, errorLogs, preferences, jobs,
          request, workers, providerCalls, deadLetterQueue, getCalls,
          classified, bulk, batches>>

TransactionIds == 1..Len(transactions)
Slots == 1..MaxWorkers
Callers == 1..MaxCallers

\* CreateNotificationDto values submitted (validated by the HTTP layer)
Dtos ==
    [userId : Users, channel : {EMAIL, PUSH}, priority : {0, HIGH},
     metadata : {{}, {"templateId"}}]

\* slot of the jobs table for a transaction whose job was not added yet
NoJob ==
    [jobId |-> 0, queue |-> Null, channel |-> Null, priority |-> 0,
     attempts |-> 0, state |-> "none", attemptsMade |-> 0, stalledCount |-> 0,
     lock |-> 0, seq |-> 0]

\* what sendNotification answered: nothing yet, its return value
\* ("queued"), or the rejection of the call it awaited ("error")
NoReply ==
    [status |-> "none", transactionId |-> 0, channel |-> Null, priority |-> 0]

IdleRequest ==
    [pc |-> "idle", dto |-> [userId |-> "u1", channel |-> EMAIL, priority |-> 0],
     transactionId |-> 0, preferredChannels |-> <<>>, channel |-> Null,
     priority |-> 0, reply |-> NoReply]

\* a call of getPreferences: idle, or between its findUnique and its create
IdleGet ==
    [pc |-> "idle", userId |-> Null, result |-> "none"]

\* sendBulkNotifications: no request, or a request with its items; an item
\* is the async callback of one notification of the batch
NoBulkReply ==
    [success |-> FALSE, total |-> 0, queued |-> 0, failed |-> 0,
     results |-> <<>>]

IdleBulk ==
    [pc |-> "idle", items |-> <<>>, reply |-> NoBulkReply]

\* the for loop of sendBulkNotifications seen by counts: total is
\* dto.notifications.length, i the loop variable, inFlight the callbacks of
\* batch.map(...) that have not settled, results is results.length
IdleBatches ==
    [pc |-> "idle", total |-> 0, i |-> 0, inFlight |-> 0, results |-> 0]

NewItem(notification) ==
    [dto |-> notification, pc |-> "new", transactionId |-> 0,
     channel |-> Null, priority |-> 0, result |-> "none"]

NoClassification ==
    [error |-> NoError, retryable |-> FALSE, errorType |-> Null]

IdleWorker ==
    [pc |-> "idle", jobId |-> 0, channel |-> Null, error |-> NoError,
     retryCount |-> 0, maxRetries |-> 0, existing |-> {},
     startStatus |-> Null]

ErrorLogsOf(transactionId) ==
    SelectSeq(errorLogs, LAMBDA row : row.transactionId = transactionId)

Init ==
    /\ maxRetryAttempts \in 0..MaxEnvRetry
    /\ transactions = <<>>
    /\ errorLogs = <<>>
    /\ preferences = {}
    /\ jobs = <<>>
    /\ request = IdleRequest
    /\ workers = [w \in Slots |-> IdleWorker]
    /\ providerCalls = <<>>
    /\ deadLetterQueue = {}
    /\ getCalls = [c \in Callers |-> IdleGet]
    /\ classified = NoClassification
    /\ bulk = IdleBulk
    /\ batches = IdleBatches

(***************************************************************************)
(* NotificationController.sendNotification, one step per awaited call.     *)
(***************************************************************************)
\* const transactionId = await this.trackingService.createTransaction(...)
SubmitCreate(dto) ==
    /\ request.pc = "idle"
    /\ Len(transactions) < MaxTx
    /\ LET transactionId == Len(transactions) + 1 IN
        /\ transactions' = Append(transactions,
               createTransaction(transactionId, dto.userId, dto, maxRetryAttempts))
        /\ providerCalls' = Append(providerCalls, [ok |-> 0, failed |-> 0])
        /\ jobs' = Append(jobs, NoJob)
        /\ request' = [IdleRequest EXCEPT !.pc = "created", !.dto = dto,
                                          !.transactionId = transactionId]
    /\ UNCHANGED <<sideVars, maxRetryAttempts, errorLogs, preferences, workers>>

\* getPreferences: the stored row, or the default row it creates
PreferencesAfterGet(userId) ==
    IF \E row \in preferences : row.userId = userId
    THEN preferences
    ELSE preferences \cup {createDefaultPreferences(userId)}

PreferencesOf(table, userId) ==
    CHOOSE row \in table : row.userId = userId

\* sendNotification always resolving the channel to EMAIL when the body
\* has none
SubmitPreferredChannelsIgnored ==
    /\ request.pc = "created"
    /\ LET table == PreferencesAfterGet(request.dto.userId)
           preferred == getPreferredChannels(PreferencesOf(table, request.dto.userId))
       IN
        /\ preferences' = table
        /\ request' = [request EXCEPT
               !.pc = "channel",
               !.preferredChannels = preferred,
               !.channel = IF request.dto.channel # Null THEN request.dto.channel
                           ELSE EMAIL]
    /\ UNCHANGED <<sideVars, maxRetryAttempts, transactions, errorLogs, jobs, workers,
                   providerCalls>>

\* const preferredChannels = await getPreferredChannels(dto.userId);
\* const channel = dto.channel || preferredChannels[0] || EMAIL;
SubmitPreferredChannels ==
    /\ request.pc = "created"
    /\ LET table == PreferencesAfterGet(request.dto.userId)
           preferred == getPreferredChannels(PreferencesOf(table, request.dto.userId))
       IN
        /\ preferences' = table
        /\ request' = [request EXCEPT
               !.pc = "channel",
               !.preferredChannels = preferred,
               !.channel = IF request.dto.channel # Null THEN request.dto.channel
                           ELSE IF Len(preferred) > 0 THEN preferred[1]
                           ELSE EMAIL]
    /\ UNCHANGED <<sideVars, maxRetryAttempts, transactions, errorLogs, jobs, workers,
                   providerCalls>>

\* const channelPriority = await getChannelPriority(dto.userId, channel);
\* const priority = dto.priority || channelPriority || MEDIUM;
SubmitChannelPriority ==
    /\ request.pc = "channel"
    /\ LET table == PreferencesAfterGet(request.dto.userId)
           channelPriority ==
               getChannelPriority(PreferencesOf(table, request.dto.userId),
                                  request.channel)
       IN
        /\ preferences' = table
        /\ request' = [request EXCEPT
               !.pc = "priority",
               !.priority = IF request.dto.priority # 0 THEN request.dto.priority
                            ELSE IF channelPriority # 0 THEN channelPriority
                            ELSE MEDIUM]
    /\ UNCHANGED <<sideVars, maxRetryAttempts, transactions, errorLogs, jobs, workers,
                   providerCalls>>

\* addNotificationToQueue with priority > HIGH as the test
QueueForAboveHigh(notification) ==
    LET priority == IF notification.priority # 0 THEN notification.priority ELSE LOW
    IN  IF priority > HIGH THEN "priority-notification-queue"
        ELSE "notification-queue"

\* QueueService.addNotificationToQueue: the queue a notification goes to
QueueFor(notification) ==
    LET priority == IF notification.priority # 0 THEN notification.priority ELSE LOW
    IN  IF priority >= HIGH THEN "priority-notification-queue"
        ELSE "notification-queue"

\* The job queue.add creates: data from the notification, opts from the
\* call and from the queue's defaultJobOptions (attempts).
NewJob(notification, transactionId) ==
    [jobId        |-> transactionId,
     queue        |-> QueueFor(notification),
     channel      |-> notification.channel,
     priority     |-> IF notification.priority # 0 THEN notification.priority
                      ELSE LOW,
     attempts     |-> maxRetryAttempts,
     state        |-> "waiting",
     attemptsMade |-> 0,
     stalledCount |-> 0,
     lock         |-> 0,
     seq          |-> Cardinality({t \in 1..Len(jobs) : jobs[t].state # "none"}) + 1]

\* queue.add with a jobId the queue already holds adds nothing
QueueAdd(job) ==
    IF jobs[job.jobId].state = "none"
    THEN [jobs EXCEPT ![job.jobId] = job]
    ELSE jobs

\* await this.queueService.addNotificationToQueue({...dto, channel, priority},
\* transactionId); the handler then returns its reply.
SubmitEnqueue ==
    /\ request.pc = "priority"
    /\ jobs' = QueueAdd(NewJob([channel |-> request.channel,
                                priority |-> request.priority],
                               request.transactionId))
    /\ request' = [request EXCEPT
           !.pc = "idle",
           !.reply = [status |-> "queued",
                      transactionId |-> request.transactionId,
                      channel |-> request.channel,
                      priority |-> request.priority]]
    /\ UNCHANGED <<sideVars, maxRetryAttempts, transactions, errorLogs, preferences,
                   workers, providerCalls>>

\* queue.add rejects (the broker cannot be reached): the await throws, the
\* handler has no catch block, and the request ends with the error.
SubmitEnqueueFails ==
    /\ request.pc = "priority"
    /\ request' = [request EXCEPT
           !.pc = "idle",
           !.reply = [NoReply EXCEPT !.status = "error"]]
    /\ UNCHANGED <<sideVars, maxRetryAttempts, transactions, errorLogs, preferences,
                   jobs, workers, providerCalls>>

(***************************************************************************)
(* Broker (BullMQ): delivery of the jobs of priority-notification-queue to *)
(* the worker slots of PriorityNotificationProcessor.                      *)
(***************************************************************************)
PriorityQueue == "priority-notification-queue"

\* The order in which the broker serves the waiting jobs of a queue that
\* were added with a priority option: the lower number first, and jobs of
\* equal priority in the order they were added.
ServedBefore(job, other) ==
    \/ job.priority < other.priority
    \/ job.priority = other.priority /\ job.seq <= other.seq

\* A worker slot takes a waiting job: the job becomes active, locked by the
\* slot, and process(job) is invoked. The slots are interchangeable; the
\* lowest idle one is used.
Pickup(w, j) ==
    /\ workers[w].pc = "idle"
    /\ \A v \in 1..(w - 1) : workers[v].pc # "idle"
    /\ j \in TransactionIds
    /\ jobs[j].queue = PriorityQueue
    /\ jobs[j].state = "waiting"
    /\ \A k \in TransactionIds :
           (jobs[k].queue = jobs[j].queue /\ jobs[k].state = "waiting")
               => ServedBefore(jobs[j], jobs[k])
    /\ jobs' = [jobs EXCEPT ![j].state = "active", ![j].lock = w]
    /\ workers' = [workers EXCEPT ![w] =
           [IdleWorker EXCEPT !.pc = "start", !.jobId = j,
                              !.channel = jobs[j].channel,
                              !.startStatus = transactions[j].status]]
    /\ UNCHANGED <<sideVars, maxRetryAttempts, transactions, errorLogs, preferences,
                   request, providerCalls>>

\* The lock of an active job expires (its worker crashed, or is alive but
\* failed to renew the lock in time): the broker moves the job back to
\* waiting and will deliver it again. A worker that is still running goes on.
Stalled(j) ==
    /\ j \in TransactionIds
    /\ jobs[j].state = "active"
    /\ jobs[j].stalledCount < MaxStalls
    /\ jobs' = [jobs EXCEPT ![j].state = "waiting", ![j].lock = 0,
                            ![j].stalledCount = @ + 1]
    /\ UNCHANGED <<sideVars, maxRetryAttempts, transactions, errorLogs, preferences,
                   request, workers, providerCalls>>

\* The backoff delay of a failed attempt has passed
BackoffElapsed(j) ==
    /\ j \in TransactionIds
    /\ jobs[j].state = "delayed"
    /\ jobs' = [jobs EXCEPT ![j].state = "waiting"]
    /\ UNCHANGED <<sideVars, maxRetryAttempts, transactions, errorLogs, preferences,
                   request, workers, providerCalls>>

\* The state of a job after an attempt of it threw: another attempt after
\* the backoff delay while attemptsMade < attempts, else failed.
AfterFailedAttempt(job) ==
    LET made == job.attemptsMade + 1 IN
    [job EXCEPT !.attemptsMade = made, !.lock = 0,
                !.state = IF made < job.attempts THEN "delayed" ELSE "failed"]

\* process() returned: the broker marks the job completed, unless the
\* worker no longer holds the job's lock (the result is then dropped).
JobCompleted(w) ==
    /\ workers[w].pc = "return"
    /\ LET j == workers[w].jobId IN
        jobs' = IF jobs[j].state = "active" /\ jobs[j].lock = w
                THEN [jobs EXCEPT ![j].state = "completed", ![j].lock = 0]
                ELSE jobs
    /\ workers' = [workers EXCEPT ![w] = IdleWorker]
    /\ UNCHANGED <<sideVars, maxRetryAttempts, transactions, errorLogs, preferences,
                   request, providerCalls>>

\* process() threw: the broker counts the failed attempt, unless the
\* worker no longer holds the job's lock.
JobFailed(w) ==
    /\ workers[w].pc = "throw"
    /\ LET j == workers[w].jobId IN
        jobs' = IF jobs[j].state = "active" /\ jobs[j].lock = w
                THEN [jobs EXCEPT ![j] = AfterFailedAttempt(jobs[j])]
                ELSE jobs
    /\ workers' = [workers EXCEPT ![w] = IdleWorker]
    /\ UNCHANGED <<sideVars, maxRetryAttempts, transactions, errorLogs, preferences,
                   request, providerCalls>>

(***************************************************************************)
(* PriorityNotificationProcessor.process, one step per awaited call.       *)
(***************************************************************************)
\* await updateStatus(transactionId, PROCESSING)
UpdateProcessing(w) ==
    /\ workers[w].pc = "start"
    /\ LET t == workers[w].jobId IN
        transactions' = [transactions EXCEPT ![t] =
            updateStatus(@, PROCESSING, Null, FALSE, {})]
    /\ workers' = [workers EXCEPT ![w].pc = "send"]
    /\ UNCHANGED <<sideVars, maxRetryAttempts, errorLogs, preferences, jobs, request,
                   providerCalls>>

\* result = await notificationService.send...(...) resolves
ProviderOk(w) ==
    /\ workers[w].pc = "send"
    /\ workers' = [workers EXCEPT ![w].pc = "sentFind"]
    /\ providerCalls' = [providerCalls EXCEPT ![workers[w].jobId].ok = @ + 1]
    /\ UNCHANGED <<sideVars, maxRetryAttempts, transactions, errorLogs, preferences,
                   jobs, request>>

\* the provider call rejects with error; control enters the catch block.
\* The push provider is a placeholder that never fails.
ProviderFail(w, error) ==
    /\ workers[w].pc = "send"
    /\ workers[w].channel # PUSH
    /\ workers' = [workers EXCEPT ![w].pc = "caught", ![w].error = error]
    /\ providerCalls' = [providerCalls EXCEPT ![workers[w].jobId].failed = @ + 1]
    /\ UNCHANGED <<sideVars, maxRetryAttempts, transactions, errorLogs, preferences,
                   jobs, request>>

\* updateStatus(transactionId, SENT, null, result), first await:
\* findUnique({select: {metadata}})
SentFind(w) ==
    /\ workers[w].pc = "sentFind"
    /\ workers' = [workers EXCEPT ![w].pc = "sentUpdate",
           ![w].existing = transactions[workers[w].jobId].metadata]
    /\ UNCHANGED <<sideVars, maxRetryAttempts, transactions, errorLogs, preferences,
                   jobs, request, providerCalls>>

\* updateStatus(transactionId, SENT, null, result), second await: update;
\* process() then returns the result.
SentUpdate(w) ==
    /\ workers[w].pc = "sentUpdate"
    /\ LET t == workers[w].jobId IN
        transactions' = [transactions EXCEPT ![t] =
            updateStatus(@, SENT, Null, TRUE, workers[w].existing)]
    /\ workers' = [workers EXCEPT ![w].pc = "return"]
    /\ UNCHANGED <<sideVars, maxRetryAttempts, errorLogs, preferences, jobs, request,
                   providerCalls>>

\* process() logging only the failures it classifies retryable
LogErrorOnlyRetryable(w) ==
    /\ workers[w].pc = "caught"
    /\ errorLogs' = IF isRetryableError(workers[w].error)
                    THEN Append(errorLogs,
                             logError(workers[w].jobId, workers[w].error, TRUE))
                    ELSE errorLogs
    /\ workers' = [workers EXCEPT ![w].pc = "logged"]
    /\ UNCHANGED <<sideVars, maxRetryAttempts, transactions, preferences, jobs, request,
                   providerCalls>>

\* await logError(transactionId, error, this.isRetryableError(error))
LogError(w) ==
    /\ workers[w].pc = "caught"
    /\ errorLogs' = Append(errorLogs,
           logError(workers[w].jobId, workers[w].error,
                    isRetryableError(workers[w].error)))
    /\ workers' = [workers EXCEPT ![w].pc = "logged"]
    /\ UNCHANGED <<sideVars, maxRetryAttempts, transactions, preferences, jobs, request,
                   providerCalls>>

\* const transaction = await getTransaction(transactionId)
GetTransaction(w) ==
    /\ workers[w].pc = "logged"
    /\ LET row == transactions[workers[w].jobId] IN
        workers' = [workers EXCEPT ![w].pc = "decide",
                                  ![w].retryCount = row.retryCount,
                                  ![w].maxRetries = row.maxRetries]
    /\ UNCHANGED <<sideVars, maxRetryAttempts, transactions, errorLogs, preferences,
                   jobs, request, providerCalls>>

\* process() writing FAILED when the retries are used up
StatusAfterFailureFailed(retryCount, maxRetries, error) ==
    IF retryCount >= maxRetries THEN FAILED ELSE RETRY

\* the limit test of process() with > for >=
StatusAfterFailureAboveMax(retryCount, maxRetries, error) ==
    IF retryCount > maxRetries THEN DEAD_LETTER ELSE RETRY

\* The status process() writes after a failure, from the row it read
StatusAfterFailure(retryCount, maxRetries, error) ==
    IF retryCount >= maxRetries THEN DEAD_LETTER ELSE RETRY

\* await updateStatus(transactionId, DEAD_LETTER | RETRY, error.message);
\* process() then rethrows the error.
UpdateAfterFailure(w) ==
    /\ workers[w].pc = "decide"
    /\ LET t == workers[w].jobId
           status == StatusAfterFailure(workers[w].retryCount,
                                        workers[w].maxRetries, workers[w].error)
       IN
        transactions' = [transactions EXCEPT ![t] =
            updateStatus(@, status, workers[w].error.message, FALSE, {})]
    /\ workers' = [workers EXCEPT ![w].pc = "throw"]
    /\ UNCHANGED <<sideVars, maxRetryAttempts, errorLogs, preferences, jobs, request,
                   providerCalls>>

(***************************************************************************)
(* Preferences API: UserPreferencesService.updatePreferences and the       *)
(* concurrent callers of getPreferences.                                   *)
(***************************************************************************)
\* An UpdatePreferencesDto: a function from the fields the body supplies to
\* their values (every field is optional).
EmptyDto == [k \in {} |-> TRUE]

PartialDtos ==
    { EmptyDto,
      [emailEnabled |-> FALSE],
      [whatsappEnabled |-> TRUE],
      [emailEnabled |-> FALSE, whatsappEnabled |-> TRUE],
      [smsEnabled |-> TRUE, pushEnabled |-> TRUE],
      [whatsappPriority |-> 1],
      [emailEnabled |-> TRUE, emailPriority |-> 4] }

\* {...row, ...dto}: the fields of dto over those of row
Spread(row, dto) ==
    [k \in DOMAIN row |-> IF k \in DOMAIN dto THEN dto[k] ELSE row[k]]

\* The row prisma.create writes from {userId, ...dto}: the columns the data
\* leaves out take their defaults.
ColumnDefaults(userId) ==
    [userId          |-> userId,
     emailEnabled    |-> TRUE,
     smsEnabled      |-> FALSE,
     whatsappEnabled |-> FALSE,
     pushEnabled     |-> FALSE,
     emailPriority   |-> 1,
     smsPriority     |-> 2,
     whatsappPriority |-> 3,
     pushPriority    |-> 4]

\* updatePreferences that rewrites the whole row from the dto
updatePreferencesReplacing(table, userId, dto) ==
    {row \in table : row.userId # userId}
        \cup {Spread(ColumnDefaults(userId), dto)}

\* updatePreferences: the table after create (no row yet) or update
updatePreferences(table, userId, dto) ==
    IF ~\E row \in table : row.userId = userId
    THEN table \cup {Spread(ColumnDefaults(userId), dto)}
    ELSE {row \in table : row.userId # userId}
             \cup {Spread(PreferencesOf(table, userId), dto)}

\* PUT /users/:userId/preferences
UpdatePreferences(userId, dto) ==
    /\ preferences' = updatePreferences(preferences, userId, dto)
    /\ preferences' # preferences
    /\ UNCHANGED <<maxRetryAttempts, transactions, errorLogs, jobs, request,
                   workers, providerCalls, sideVars>>

\* getPreferences, first await: findUnique. A row found is returned;
\* otherwise the call goes on to createDefaultPreferences.
GetFind(c, userId) ==
    /\ getCalls[c].pc = "idle"
    /\ getCalls' = [getCalls EXCEPT ![c] =
           IF \E row \in preferences : row.userId = userId
           THEN [pc |-> "done", userId |-> userId, result |-> "row"]
           ELSE [pc |-> "create", userId |-> userId, result |-> "none"]]
    /\ UNCHANGED <<maxRetryAttempts, transactions, errorLogs, preferences,
                   jobs, request, workers, providerCalls, bulk, deadLetterQueue,
                   classified, batches>>

\* getPreferences, second await: prisma.create of the default row. userId is
\* the table's unique key: if a row for it was inserted since the findUnique,
\* create rejects and the rejection leaves getPreferences uncaught.
GetCreate(c) ==
    /\ getCalls[c].pc = "create"
    /\ LET userId == getCalls[c].userId IN
        IF \E row \in preferences : row.userId = userId
        THEN /\ getCalls' = [getCalls EXCEPT ![c].pc = "done",
                                              ![c].result = "error"]
             /\ UNCHANGED preferences
        ELSE /\ getCalls' = [getCalls EXCEPT ![c].pc = "done",
                                              ![c].result = "row"]
             /\ preferences' = preferences
                    \cup {createDefaultPreferences(userId)}
    /\ UNCHANGED <<maxRetryAttempts, transactions, errorLogs, jobs, request,
                   workers, providerCalls, bulk, deadLetterQueue, classified, batches>>

\* the caller has its answer
GetReturn(c) ==
    /\ getCalls[c].pc = "done"
    /\ getCalls' = [getCalls EXCEPT ![c] = IdleGet]
    /\ UNCHANGED <<maxRetryAttempts, transactions, errorLogs, preferences,
                   jobs, request, workers, providerCalls, bulk, deadLetterQueue,
                   classified, batches>>

(***************************************************************************)
(* The worker's classifier over the error objects a provider can raise.    *)
(***************************************************************************)
Codes == {Null, "ETIMEDOUT", "ECONNREFUSED", "ENOTFOUND", "ECONNRESET"}

StatusCodes == {0, 400, 401, 403, 429, 500, 502, 503}

Messages ==
    {Null, "connect timeout", "network unreachable", "rate limit exceeded",
     "service unavailable", "unauthorized", "forbidden", "invalid recipient",
     "number not found", "bad request", "invalid: rate limit",
     "internal error"}

Errors ==
    {Error(code, statusCode, message, provider) :
        code \in Codes, statusCode \in StatusCodes, message \in Messages,
        provider \in BOOLEAN}

\* logError(transactionId, error, this.isRetryableError(error)), for the
\* classification it computes
ClassifyError(error) ==
    /\ classified' =
           [error     |-> error,
            retryable |-> isRetryableError(error),
            errorType |-> determineErrorType(error, isRetryableError(error))]
    /\ classified' # classified
    /\ UNCHANGED <<maxRetryAttempts, transactions, errorLogs, preferences,
                   jobs, request, workers, providerCalls, bulk, deadLetterQueue,
                   getCalls, batches>>

(***************************************************************************)
(* NotificationController.sendBulkNotifications. The notifications of a    *)
(* batch (at most BATCH_SIZE = 50, here all of the request) are processed  *)
(* by async callbacks that run interleaved; an item is one callback.       *)
(***************************************************************************)
BulkBodies ==
    [userId : Users, channel : {Null, EMAIL}, priority : {0, HIGH, URGENT}]

BulkRequests ==
    {<<n>> : n \in BulkBodies} \cup {<<n, m>> : n \in BulkBodies, m \in BulkBodies}

\* the handler is entered with the body's notifications
BulkReceive(notifications) ==
    /\ bulk.pc \in {"idle", "done"}
    /\ Len(transactions) + Len(notifications) <= MaxBulkTx
    /\ bulk' = [pc |-> "running",
                items |-> [i \in 1..Len(notifications) |-> NewItem(notifications[i])],
                reply |-> NoBulkReply]
    /\ UNCHANGED <<maxRetryAttempts, transactions, errorLogs, preferences,
                   jobs, request, workers, providerCalls, deadLetterQueue,
                   getCalls, classified, batches>>

\* const transactionId = await createTransaction(notification.userId, notification)
BulkItemCreate(i) ==
    /\ bulk.pc = "running"
    /\ i \in 1..Len(bulk.items)
    /\ bulk.items[i].pc = "new"
    /\ LET transactionId == Len(transactions) + 1
           dto == bulk.items[i].dto
       IN
        /\ transactions' = Append(transactions,
               createTransaction(transactionId, dto.userId, dto, maxRetryAttempts))
        /\ providerCalls' = Append(providerCalls, [ok |-> 0, failed |-> 0])
        /\ jobs' = Append(jobs, NoJob)
        /\ bulk' = [bulk EXCEPT !.items[i].pc = "created",
                                !.items[i].transactionId = transactionId]
    /\ UNCHANGED <<maxRetryAttempts, errorLogs, preferences, request, workers,
                   deadLetterQueue, getCalls, classified, batches>>

\* createTransaction rejects: the callback's catch block returns
\* {success: false, userId, error}
BulkItemCreateFails(i) ==
    /\ bulk.pc = "running"
    /\ i \in 1..Len(bulk.items)
    /\ bulk.items[i].pc = "new"
    /\ bulk' = [bulk EXCEPT !.items[i].pc = "done", !.items[i].result = "error"]
    /\ UNCHANGED <<maxRetryAttempts, transactions, errorLogs, preferences,
                   jobs, request, workers, providerCalls, deadLetterQueue,
                   getCalls, classified, batches>>

\* const [preferredChannels, channelPriority] = await Promise.all([
\*   getPreferredChannels(userId),
\*   notification.channel ? getChannelPriority(userId, notification.channel)
\*                        : Promise.resolve(MEDIUM)]);
\* const channel = notification.channel || preferredChannels[0] || EMAIL;
\* const priority = notification.priority || channelPriority || MEDIUM;
BulkItemPreferences(i) ==
    /\ bulk.pc = "running"
    /\ i \in 1..Len(bulk.items)
    /\ bulk.items[i].pc = "created"
    /\ LET dto == bulk.items[i].dto
           table == PreferencesAfterGet(dto.userId)
           row == PreferencesOf(table, dto.userId)
           preferred == getPreferredChannels(row)
           channelPriority == IF dto.channel # Null
                              THEN getChannelPriority(row, dto.channel)
                              ELSE MEDIUM
       IN
        /\ preferences' = table
        /\ bulk' = [bulk EXCEPT
               !.items[i].pc = "resolved",
               !.items[i].channel = IF dto.channel # Null THEN dto.channel
                                    ELSE IF Len(preferred) > 0 THEN preferred[1]
                                    ELSE EMAIL,
               !.items[i].priority = IF dto.priority # 0 THEN dto.priority
                                     ELSE IF channelPriority # 0 THEN channelPriority
                                     ELSE MEDIUM]
    /\ UNCHANGED <<maxRetryAttempts, transactions, errorLogs, jobs, request,
                   workers, providerCalls, deadLetterQueue, getCalls, classified, batches>>

\* Two getPreferences calls for a user without a row run at once (the two
\* of one item's Promise.all, or those of two items of the batch): both
\* findUnique return null, one create inserts the default row and the other
\* rejects, which rejects the Promise.all of its item; the catch block
\* returns {success: false, userId, error}.
BulkItemPreferencesFails(i) ==
    /\ bulk.pc = "running"
    /\ i \in 1..Len(bulk.items)
    /\ bulk.items[i].pc = "created"
    /\ LET dto == bulk.items[i].dto IN
        /\ ~\E row \in preferences : row.userId = dto.userId
        /\ \/ dto.channel # Null
           \/ \E k \in 1..Len(bulk.items) :
                  /\ k # i
                  /\ bulk.items[k].pc = "created"
                  /\ bulk.items[k].dto.userId = dto.userId
        /\ preferences' = preferences \cup {createDefaultPreferences(dto.userId)}
    /\ bulk' = [bulk EXCEPT !.items[i].pc = "done", !.items[i].result = "error"]
    /\ UNCHANGED <<maxRetryAttempts, transactions, errorLogs, jobs, request,
                   workers, providerCalls, deadLetterQueue, getCalls, classified, batches>>

\* await addNotificationToQueue({...notification, channel, priority},
\* transactionId); return {success: true, transactionId, userId}
BulkItemEnqueue(i) ==
    /\ bulk.pc = "running"
    /\ i \in 1..Len(bulk.items)
    /\ bulk.items[i].pc = "resolved"
    /\ jobs' = QueueAdd(NewJob([channel |-> bulk.items[i].channel,
                                priority |-> bulk.items[i].priority],
                               bulk.items[i].transactionId))
    /\ bulk' = [bulk EXCEPT !.items[i].pc = "done", !.items[i].result = "ok"]
    /\ UNCHANGED <<maxRetryAttempts, transactions, errorLogs, preferences,
                   request, workers, providerCalls, deadLetterQueue, getCalls,
                   classified, batches>>

\* queue.add rejects: the catch block returns {success: false, userId, error}
BulkItemEnqueueFails(i) ==
    /\ bulk.pc = "running"
    /\ i \in 1..Len(bulk.items)
    /\ bulk.items[i].pc = "resolved"
    /\ bulk' = [bulk EXCEPT !.items[i].pc = "done", !.items[i].result = "error"]
    /\ UNCHANGED <<maxRetryAttempts, transactions, errorLogs, preferences,
                   jobs, request, workers, providerCalls, deadLetterQueue,
                   getCalls, classified, batches>>

\* the value an item's callback returned
ItemResult(item) ==
    IF item.result = "ok"
    THEN [success |-> TRUE, transactionId |-> item.transactionId,
          userId |-> item.dto.userId, error |-> FALSE]
    ELSE [success |-> FALSE, transactionId |-> 0,
          userId |-> item.dto.userId, error |-> TRUE]

\* the results of a reply with the failed items left out
BulkResultsOnlyQueued(items) ==
    SelectSeq([i \in 1..Len(items) |-> ItemResult(items[i])],
              LAMBDA r : r.success)

\* results, in the order of the notifications (Promise.allSettled)
BulkResults(items) ==
    [i \in 1..Len(items) |-> ItemResult(items[i])]

\* every callback has settled: the handler counts and replies
BulkRespond ==
    /\ bulk.pc = "running"
    /\ \A i \in 1..Len(bulk.items) : bulk.items[i].pc = "done"
    /\ LET results == BulkResults(bulk.items) IN
        bulk' = [bulk EXCEPT
            !.pc = "done",
            !.reply = [success |-> TRUE,
                       total   |-> Len(bulk.items),
                       queued  |-> Len(SelectSeq(results, LAMBDA r : r.success)),
                       failed  |-> Len(SelectSeq(results, LAMBDA r : ~r.success)),
                       results |-> results]]
    /\ UNCHANGED <<maxRetryAttempts, transactions, errorLogs, preferences,
                   jobs, request, workers, providerCalls, deadLetterQueue,
                   getCalls, classified, batches>>

(***************************************************************************)
(* The batch loop of sendBulkNotifications, for requests of more than one  *)
(* batch. The callbacks of a batch are counted, not told apart.            *)
(***************************************************************************)
\* const BATCH_SIZE = 50
BATCH_SIZE == 50

\* the lengths of dto.notifications: up to MaxBatches full batches and one
\* notification more
BulkLengths == 0..(MaxBatches * BATCH_SIZE + 1)

\* the handler is entered: results = [], i = 0
BatchReceive(length) ==
    /\ batches.pc \in {"idle", "done"}
    /\ batches' = [IdleBatches EXCEPT !.pc = "loop", !.total = length]
    /\ UNCHANGED <<maxRetryAttempts, transactions, errorLogs, preferences,
                   jobs, request, workers, providerCalls, deadLetterQueue,
                   getCalls, classified, bulk>>

\* i < dto.notifications.length: batch = notifications.slice(i, i + BATCH_SIZE)
\* and batch.map(async ...) starts one callback per notification of the batch
BatchStart ==
    /\ batches.pc = "loop"
    /\ batches.i < batches.total
    /\ LET rest == batches.total - batches.i
           length == IF rest < BATCH_SIZE THEN rest ELSE BATCH_SIZE
       IN
        batches' = [batches EXCEPT !.pc = "await",
                                   !.inFlight = @ + length]
    /\ UNCHANGED <<maxRetryAttempts, transactions, errorLogs, preferences,
                   jobs, request, workers, providerCalls, deadLetterQueue,
                   getCalls, classified, bulk>>

\* a callback of the batch returns (from its try or from its catch block)
BatchItemSettles ==
    /\ batches.inFlight > 0
    /\ batches' = [batches EXCEPT !.inFlight = @ - 1]
    /\ UNCHANGED <<maxRetryAttempts, transactions, errorLogs, preferences,
                   jobs, request, workers, providerCalls, deadLetterQueue,
                   getCalls, classified, bulk>>

\* the loop going on to the next batch without awaiting the callbacks
BatchSettledWithoutAwait ==
    /\ batches.pc = "await"
    /\ LET rest == batches.total - batches.i
           length == IF rest < BATCH_SIZE THEN rest ELSE BATCH_SIZE
       IN
        batches' = [batches EXCEPT !.pc = "loop",
                                   !.results = @ + length,
                                   !.i = @ + BATCH_SIZE]
    /\ UNCHANGED <<maxRetryAttempts, transactions, errorLogs, preferences,
                   jobs, request, workers, providerCalls, deadLetterQueue,
                   getCalls, classified, bulk>>

\* await Promise.allSettled(...) resumes once every callback of the batch
\* has settled; batchResults.forEach pushes one result per callback, and
\* i += BATCH_SIZE
BatchSettled ==
    /\ batches.pc = "await"
    /\ batches.inFlight = 0
    /\ LET rest == batches.total - batches.i
           length == IF rest < BATCH_SIZE THEN rest ELSE BATCH_SIZE
       IN
        batches' = [batches EXCEPT !.pc = "loop",
                                   !.results = @ + length,
                                   !.i = @ + BATCH_SIZE]
    /\ UNCHANGED <<maxRetryAttempts, transactions, errorLogs, preferences,
                   jobs, request, workers, providerCalls, deadLetterQueue,
                   getCalls, classified, bulk>>

\* the loop ends: the handler returns {total, queued, failed, results}
BatchRespond ==
    /\ batches.pc = "loop"
    /\ batches.i >= batches.total
    /\ batches' = [batches EXCEPT !.pc = "done"]
    /\ UNCHANGED <<maxRetryAttempts, transactions, errorLogs, preferences,
                   jobs, request, workers, providerCalls, deadLetterQueue,
                   getCalls, classified, bulk>>

Next ==
    \/ \E dto \in Dtos : SubmitCreate(dto)
    \/ SubmitPreferredChannels
    \/ SubmitChannelPriority
    \/ SubmitEnqueue
    \/ \E w \in Slots, j \in 1..MaxTx : Pickup(w, j)
    \/ \E j \in 1..MaxTx : Stalled(j)
    \/ \E j \in 1..MaxTx : BackoffElapsed(j)
    \/ \E w \in Slots : JobCompleted(w)
    \/ \E w \in Slots : JobFailed(w)
    \/ \E w \in Slots : UpdateProcessing(w)
    \/ \E w \in Slots : ProviderOk(w)
    \/ \E w \in Slots, error \in ProviderErrors : ProviderFail(w, error)
    \/ \E w \in Slots : SentFind(w)
    \/ \E w \in Slots : SentUpdate(w)
    \/ \E w \in Slots : LogError(w)
    \/ \E w \in Slots : GetTransaction(w)
    \/ \E w \in Slots : UpdateAfterFailure(w)

Spec == Init /\ [][Next]_vars

\* Bodies handed to sendNotification; channel and priority are optional
\* (Null and 0 stand for a field the body leaves out).
Bodies ==
    [userId : Users, channel : {Null, EMAIL, WHATSAPP},
     priority : {0, MEDIUM, HIGH}]

\* Submission with the preferences API, without the workers
NextSubmit ==
    \/ \E dto \in Bodies : SubmitCreate(dto)
    \/ SubmitPreferredChannels
    \/ SubmitChannelPriority
    \/ SubmitEnqueue
    \/ SubmitEnqueueFails
    \/ \E userId \in Users, dto \in PartialDtos : UpdatePreferences(userId, dto)

SpecSubmit == Init /\ [][NextSubmit]_vars

\* The preferences API under concurrent callers
NextPreferences ==
    \/ \E userId \in Users, dto \in PartialDtos : UpdatePreferences(userId, dto)
    \/ \E c \in Callers, userId \in Users : GetFind(c, userId)
    \/ \E c \in Callers : GetCreate(c)
    \/ \E c \in Callers : GetReturn(c)

SpecPreferences == Init /\ [][NextPreferences]_vars

\* The classifier applied to every error of Errors
NextClassify == \E error \in Errors : ClassifyError(error)

SpecClassify == Init /\ [][NextClassify]_vars

\* Bulk submission, with the pickup of the jobs it adds
NextBulk ==
    \/ \E notifications \in BulkRequests : BulkReceive(notifications)
    \/ \E i \in 1..MaxBulkTx : BulkItemCreate(i)
    \/ \E i \in 1..MaxBulkTx : BulkItemCreateFails(i)
    \/ \E i \in 1..MaxBulkTx : BulkItemPreferences(i)
    \/ \E i \in 1..MaxBulkTx : BulkItemPreferencesFails(i)
    \/ \E i \in 1..MaxBulkTx : BulkItemEnqueue(i)
    \/ \E i \in 1..MaxBulkTx : BulkItemEnqueueFails(i)
    \/ BulkRespond
    \/ \E w \in Slots, j \in 1..MaxBulkTx : Pickup(w, j)

SpecBulk == Init /\ [][NextBulk]_vars

(***************************************************************************)
(* POST /notifications/send through the HTTP layer: the global             *)
(* ValidationPipe validates the body against CreateNotificationDto before  *)
(* sendNotification is invoked.                                            *)
(***************************************************************************)
\* request bodies; Null and 0 stand for a field the body leaves out
HttpBodies ==
    [userId : {Null, "u1"}, notificationType : {Null, "TRANSACTIONAL"},
     channel : {Null, EMAIL}, content : {Null, "hi"},
     recipient : {Null, "a@b.c"}, priority : {0, HIGH}]

\* CreateNotificationDto with @IsOptional() on recipient
ValidationPipeRecipientOptional(body) ==
    /\ body.userId # Null
    /\ body.notificationType # Null
    /\ body.channel \in Channels
    /\ body.content # Null
    /\ body.priority # 0 => body.priority \in 1..4

\* whether the body passes the decorators of CreateNotificationDto:
\* @IsUUID() userId, @IsEnum notificationType, @IsEnum channel,
\* @IsString() content, @IsString() recipient,
\* @IsOptional() @IsNumber() @Min(1) @Max(4) priority
ValidationPipe(body) ==
    /\ body.userId # Null
    /\ body.notificationType # Null
    /\ body.channel \in Channels
    /\ body.content # Null
    /\ body.recipient # Null
    /\ body.priority # 0 => body.priority \in 1..4

\* the pipe throws BadRequestException: the response is 400 and the handler
\* is not invoked
HttpSendRejected(body) ==
    /\ request.pc = "idle"
    /\ ~ValidationPipe(body)
    /\ request' = [IdleRequest EXCEPT !.dto = body,
                                      !.reply = [NoReply EXCEPT !.status = "invalid"]]
    /\ request' # request
    /\ UNCHANGED <<sideVars, maxRetryAttempts, transactions, errorLogs,
                   preferences, jobs, workers, providerCalls>>

\* the body passes and sendNotification(dto) starts
HttpSend(body) ==
    /\ ValidationPipe(body)
    /\ SubmitCreate(body)

NextHttp ==
    \/ \E body \in HttpBodies : HttpSendRejected(body)
    \/ \E body \in HttpBodies : HttpSend(body)
    \/ SubmitPreferredChannels
    \/ SubmitChannelPriority
    \/ SubmitEnqueue
    \/ SubmitEnqueueFails

SpecHttp == Init /\ [][NextHttp]_vars

\* The batch loop of bulk submission
NextBatches ==
    \/ \E length \in BulkLengths : BatchReceive(length)
    \/ BatchStart
    \/ BatchItemSettles
    \/ BatchSettled
    \/ BatchRespond

SpecBatches == Init /\ [][NextBatches]_vars

(***************************************************************************)
(* Properties.                                                             *)
(***************************************************************************)
Terminal == {SENT, DEAD_LETTER}

\* the worker invocations in progress for transaction t
WorkersOn(t) == {w \in Slots : workers[w].pc # "idle" /\ workers[w].jobId = t}

\* the broker delivers the job of t no more, and no invocation is running
Settled(t) ==
    /\ jobs[t].state \in {"completed", "failed"}
    /\ WorkersOn(t) = {}

AllRetryable(t) ==
    \A i \in 1..Len(ErrorLogsOf(t)) : ErrorLogsOf(t)[i].retryable

\* C1: once the status of a transaction is SENT or DEAD_LETTER, no step
\* changes it.
C1_TerminalStatusNeverChanges ==
    [][\A t \in TransactionIds :
          transactions[t].status \in Terminal
              => transactions'[t].status = transactions[t].status]_vars

\* C2: an invocation of process() that found its transaction SENT or
\* DEAD_LETTER takes no step that calls the provider, changes a Transaction
\* row or adds an ErrorLog row.
C2_TerminalDeliveryIsNoOp ==
    [][\A w \in Slots :
          (workers[w].startStatus \in Terminal /\ workers'[w] # workers[w])
              => /\ transactions' = transactions
                 /\ errorLogs' = errorLogs
                 /\ providerCalls' = providerCalls]_vars

\* C3: every transaction has 0 <= retryCount <= maxRetries.
C3_RetryCountWithinMax ==
    \A t \in TransactionIds :
        /\ 0 <= transactions[t].retryCount
        /\ transactions[t].retryCount <= transactions[t].maxRetries

\* C4: the status update that follows a failure classified non-retryable
\* writes DEAD_LETTER and leaves retryCount as it was.
C4_NonRetryableGoesToDeadLetter ==
    [][\A w \in Slots :
          (/\ workers[w].pc = "decide"
           /\ workers'[w].pc = "throw"
           /\ ~isRetryableError(workers[w].error))
              => LET t == workers[w].jobId IN
                 /\ transactions'[t].status = DEAD_LETTER
                 /\ transactions'[t].retryCount = transactions[t].retryCount]_vars

\* C5: a job delivered without stalls whose every provider call failed with
\* a retryable error is settled after maxRetries + 1 calls, with status
\* DEAD_LETTER, retryCount = maxRetries, maxRetries + 1 ErrorLog rows,
\* failedAt set and failureReason populated.
C5_ExhaustedRetriesEndDeadLetter ==
    \A t \in TransactionIds :
        (/\ Settled(t)
         /\ jobs[t].stalledCount = 0
         /\ providerCalls[t].ok = 0
         /\ AllRetryable(t))
            => /\ providerCalls[t].failed = transactions[t].maxRetries + 1
               /\ transactions[t].status = DEAD_LETTER
               /\ transactions[t].retryCount = transactions[t].maxRetries
               /\ Len(ErrorLogsOf(t)) = transactions[t].maxRetries + 1
               /\ transactions[t].failedAt
               /\ transactions[t].failureReason # Null

\* C6: once the broker has stopped delivering the job of a transaction and
\* no invocation for it is running (from such a state no step changes the
\* transaction any more), the transaction is SENT or DEAD_LETTER.
C6_SettledJobIsTerminal ==
    \A t \in TransactionIds :
        Settled(t) => transactions[t].status \in Terminal

C8_SentShape ==
    \A t \in TransactionIds :
        transactions[t].status = SENT
            => /\ transactions[t].sentAt
               /\ transactions[t].failureReason = Null

\* C8 witness: a transaction is SENT after a failed attempt had moved it to
\* DEAD_LETTER with a failure reason.
C8_Witness ==
    \E t \in TransactionIds :
        /\ transactions[t].status = SENT
        /\ transactions[t].failedAt
        /\ Len(ErrorLogsOf(t)) > 0

C10_RetryThenSucceed ==
    \A t \in TransactionIds :
        (/\ Settled(t)
         /\ jobs[t].stalledCount = 0
         /\ providerCalls[t].ok <= 1
         /\ providerCalls[t].failed <= transactions[t].maxRetries
         /\ AllRetryable(t))
            => /\ transactions[t].status = SENT
               /\ transactions[t].retryCount = providerCalls[t].failed
               /\ Len(ErrorLogsOf(t)) = providerCalls[t].failed
               /\ transactions[t].sentAt
               /\ transactions[t].failureReason = Null

(***************************************************************************)
(* Submission.                                                             *)
(***************************************************************************)
\* the enabled flag and the priority column of a channel in a row
EnabledFlag(row, channel) ==
    CASE channel = EMAIL    -> row.emailEnabled
      [] channel = SMS      -> row.smsEnabled
      [] channel = WHATSAPP -> row.whatsappEnabled
      [] channel = PUSH     -> row.pushEnabled

\* the enabled channels of a row in the order EMAIL, SMS, WHATSAPP, PUSH
EnabledInOrder(row) ==
    SelectSeq(<<EMAIL, SMS, WHATSAPP, PUSH>>,
              LAMBDA channel : EnabledFlag(row, channel))

EffChannel(dto, row) ==
    IF dto.channel # Null THEN dto.channel
    ELSE IF EnabledInOrder(row) # <<>> THEN Head(EnabledInOrder(row))
    ELSE EMAIL

EffPriority(dto, row, channel) ==
    IF dto.priority # 0 THEN dto.priority
    ELSE CASE channel = EMAIL    -> row.emailPriority
           [] channel = SMS      -> row.smsPriority
           [] channel = WHATSAPP -> row.whatsappPriority
           [] channel = PUSH     -> row.pushPriority

JobsIn(table, queue) ==
    {t \in 1..Len(table) : table[t].state # "none" /\ table[t].queue = queue}

\* C12: a submission that is answered adds exactly one job, with jobId =
\* transactionId, to priority-notification-queue when the resolved priority
\* is >= HIGH (3) and to notification-queue otherwise (MEDIUM (2) goes to
\* notification-queue); the other queue and dead-letter-queue are left as
\* they were.
C12_OneJobOnTheSelectedQueue ==
    [][(request.pc = "priority" /\ request'.reply.status = "queued")
          => LET t == request.transactionId
                 selected == IF request.priority >= HIGH
                             THEN "priority-notification-queue"
                             ELSE "notification-queue"
                 other == IF request.priority >= HIGH
                          THEN "notification-queue"
                          ELSE "priority-notification-queue"
             IN  /\ JobsIn(jobs', selected) = JobsIn(jobs, selected) \cup {t}
                 /\ t \notin JobsIn(jobs, selected)
                 /\ jobs'[t].jobId = t
                 /\ jobs'[t].state = "waiting"
                 /\ JobsIn(jobs', other) = JobsIn(jobs, other)
                 /\ \A u \in TransactionIds \ {t} : jobs'[u] = jobs[u]
                 /\ deadLetterQueue' = deadLetterQueue
                 /\ (request.priority = HIGH => selected = PriorityQueue)
                 /\ (request.priority = MEDIUM => selected = "notification-queue")]_vars

\* C12 witness: a submission resolved to priority HIGH was answered and its
\* job waits on priority-notification-queue.
C12_Witness ==
    /\ request.reply.status = "queued"
    /\ request.reply.priority = HIGH
    /\ JobsIn(jobs, PriorityQueue) = {request.reply.transactionId}
    /\ JobsIn(jobs, "notification-queue") = {}

\* C13: when the transaction row was written and the enqueue then failed,
\* the row does not stay PENDING: it is FAILED and has an ErrorLog row.
C13_EnqueueFailureRollsForward ==
    request.reply.status = "error"
        => /\ transactions[request.transactionId].status = FAILED
           /\ Len(ErrorLogsOf(request.transactionId)) > 0

(***************************************************************************)
(* Dead-letter queue and attempt limits.                                   *)
(***************************************************************************)
\* C14: every DEAD_LETTER transaction has a job in dead-letter-queue.
C14_DeadLetterJobEnqueued ==
    \A t \in TransactionIds :
        transactions[t].status = DEAD_LETTER => t \in deadLetterQueue

\* C15: the provider is called at most maxRetries + 1 times for a
\* transaction, whatever the broker delivers.
C15_ProviderCallsCapped ==
    \A t \in TransactionIds :
        providerCalls[t].ok + providerCalls[t].failed
            <= transactions[t].maxRetries + 1

RuleTableRetryable(error) ==
    IF \/ error.code \in {"ETIMEDOUT", "ECONNREFUSED", "ENOTFOUND", "ECONNRESET"}
       \/ Includes(error.message, "timeout")
       \/ Includes(error.message, "network")
    THEN TRUE
    ELSE IF error.statusCode = 429 \/ Includes(error.message, "rate limit")
    THEN TRUE
    ELSE IF \/ error.statusCode \in {502, 503}
            \/ Includes(error.message, "service unavailable")
    THEN TRUE
    ELSE IF \/ error.statusCode \in {401, 403}
            \/ Includes(error.message, "unauthorized")
            \/ Includes(error.message, "forbidden")
    THEN FALSE
    ELSE IF \/ error.statusCode = 400
            \/ Includes(error.message, "invalid")
            \/ Includes(error.message, "not found")
            \/ Includes(error.message, "bad request")
    THEN FALSE
    ELSE TRUE

\* C17: the retryable bit the worker computes for an error is the one of
\* the first matching row of the rule table, for every combination of code,
\* statusCode and message keywords.
C17_RetryableBitFollowsRuleTable ==
    classified # NoClassification
        => classified.retryable = RuleTableRetryable(classified.error)

(***************************************************************************)
(* Preferences.                                                            *)
(***************************************************************************)
\* C18: concurrent getPreferences calls for a user without a row all
\* return a row, none ends with an error, and the user has one row.
C18_GetIsIdempotentUnderRaces ==
    /\ \A c \in Callers : getCalls[c].result # "error"
    /\ \A userId \in Users :
           Cardinality({row \in preferences : row.userId = userId}) <= 1

\* p1 (+) p2: the fields of p2 over those of p1
Overwrite(p1, p2) ==
    [k \in DOMAIN p1 \cup DOMAIN p2 |-> IF k \in DOMAIN p2 THEN p2[k] ELSE p1[k]]

\* the row of userId before an update: the stored one, or the column
\* defaults when the update creates the row
RowBefore(table, userId) ==
    IF \E row \in table : row.userId = userId
    THEN PreferencesOf(table, userId)
    ELSE ColumnDefaults(userId)

\* C19: from every table, updating with p1 and then with p2 leaves the
\* table that one update with p1 (+) p2 leaves, and an update changes only
\* the fields it supplies, also when it creates the row.
C19_UpdateIsRightBiasedMerge ==
    \A userId \in Users, p1 \in PartialDtos :
        /\ \A p2 \in PartialDtos :
               updatePreferences(updatePreferences(preferences, userId, p1),
                                 userId, p2)
                   = updatePreferences(preferences, userId, Overwrite(p1, p2))
        /\ LET after == PreferencesOf(updatePreferences(preferences, userId, p1),
                                      userId)
           IN  \A k \in DOMAIN after :
                   after[k] = IF k \in DOMAIN p1 THEN p1[k]
                              ELSE RowBefore(preferences, userId)[k]
        /\ Cardinality({row \in updatePreferences(preferences, userId, p1) :
                            row.userId = userId}) = 1

\* C19 witness: a stored row that two updates made, the first creating it
\* (emailEnabled off, whatsappPriority 1, the other fields at their defaults)
C19_Witness ==
    \E row \in preferences :
        /\ ~row.emailEnabled
        /\ row.whatsappPriority = 1
        /\ ~row.whatsappEnabled
        /\ row.emailPriority = 1

\* C20: getPreferredChannels returns the channels whose enabled flag is
\* true in the order EMAIL, SMS, WHATSAPP, PUSH, for every stored row and in
\* the call sendNotification makes, and equal rows give equal sequences.
C20_PreferredChannelsInFixedOrder ==
    [][/\ \A row \in preferences' :
              getPreferredChannels(row) = EnabledInOrder(row)
       /\ \A r1, r2 \in preferences \cup preferences' :
              (\A channel \in Channels :
                   EnabledFlag(r1, channel) = EnabledFlag(r2, channel))
                  => getPreferredChannels(r1) = getPreferredChannels(r2)
       /\ (request.pc = "created" /\ request'.pc = "channel")
             => request'.preferredChannels
                    = EnabledInOrder(PreferencesOf(preferences',
                                                   request.dto.userId))]_vars

\* C20 witness: sendNotification got WHATSAPP before PUSH after SMS from a
\* row with several channels enabled
C20_Witness ==
    /\ request.pc = "channel"
    /\ Len(request.preferredChannels) >= 3
    /\ request.preferredChannels[1] = SMS
    /\ request.preferredChannels[2] = WHATSAPP
    /\ request.preferredChannels[3] = PUSH

(***************************************************************************)
(* Submission: unknown users, the transaction row.                         *)
(***************************************************************************)
\* the rows of a user in a preferences table
RowsOf(table, userId) == {row \in table : row.userId = userId}

JobAdded(table, item) ==
    item.transactionId # 0 /\ table[item.transactionId].state # "none"

\* C22: the reply of sendBulkNotifications has one result per notification,
\* in order, total = number of notifications and queued + failed = total;
\* an item is reported success: true with its transactionId exactly when its
\* job was added, otherwise {success: false, userId, error}; and the failure
\* of one item changes nothing of the other items, which go on to be queued.
C22_BulkReportsEveryItem ==
    [][/\ bulk'.pc = "done"
             => LET n == Len(bulk'.items)
                    reply == bulk'.reply
                IN  /\ reply.total = n
                    /\ Len(reply.results) = n
                    /\ reply.queued + reply.failed = reply.total
                    /\ reply.queued
                           = Cardinality({i \in 1..n : JobAdded(jobs', bulk'.items[i])})
                    /\ \A i \in 1..n :
                           /\ reply.results[i].userId = bulk'.items[i].dto.userId
                           /\ reply.results[i].success
                                  <=> JobAdded(jobs', bulk'.items[i])
                           /\ reply.results[i].success
                                  => reply.results[i].transactionId
                                         = bulk'.items[i].transactionId
                           /\ ~reply.results[i].success => reply.results[i].error
       /\ (bulk.pc = "running" /\ bulk'.pc = "running")
             => \A i, k \in 1..Len(bulk.items) :
                    (/\ k # i
                     /\ bulk.items[i].result # "error"
                     /\ bulk'.items[i].result = "error")
                        => /\ bulk'.items[k] = bulk.items[k]
                           /\ jobs' = jobs
                           /\ transactions' = transactions]_vars

\* C22 witness: a request of two notifications was answered with total 2,
\* the first item failed and the second queued.
C22_Witness ==
    /\ bulk.pc = "done"
    /\ bulk.reply.total = 2
    /\ bulk.reply.queued = 1
    /\ bulk.reply.failed = 1
    /\ ~bulk.reply.results[1].success
    /\ bulk.reply.results[2].success
    /\ JobAdded(jobs, bulk.items[2])

\* C23: a job is picked up only when no waiting job of its queue has a
\* higher priority value, nor the same priority and an earlier enqueue.
C23_HigherPriorityValueFirst ==
    [][\A j \in TransactionIds :
          (jobs[j].state = "waiting" /\ jobs'[j].state = "active")
              => \A k \in TransactionIds :
                     (/\ k # j
                      /\ jobs[k].state = "waiting"
                      /\ jobs[k].queue = jobs[j].queue)
                         => \/ jobs[k].priority < jobs[j].priority
                            \/ /\ jobs[k].priority = jobs[j].priority
                               /\ jobs[j].seq < jobs[k].seq]_vars

(***************************************************************************)
(* Ownership of a transaction row, and the worker's failure transitions.   *)
(***************************************************************************)
\* C24: at most one invocation of process() is running for a transaction,
\* and a transaction has at most one job.
C24_OneWorkerPerTransaction ==
    \A t \in TransactionIds :
        /\ Cardinality(WorkersOn(t)) <= 1
        /\ jobs[t].state # "none" => jobs[t].jobId = t

\* C25: once a submission is answered, the transaction row it created is
\* PENDING with retryCount = 0 and has the channel and the priority of the
\* job added for it.
C25_RowHoldsResolvedValues ==
    request.reply.status = "queued"
        => LET t == request.reply.transactionId IN
           /\ transactions[t].status = PENDING
           /\ transactions[t].retryCount = 0
           /\ transactions[t].channel = jobs[t].channel
           /\ transactions[t].priority = jobs[t].priority

\* C26: process() throws to the broker only after it has written RETRY;
\* after writing DEAD_LETTER it returns.
C26_ThrowsOnlyForRetry ==
    [][\A w \in Slots :
          (workers[w].pc = "decide" /\ workers'[w].pc = "throw")
              => transactions'[workers[w].jobId].status = RETRY]_vars

\* C27: a step that writes RETRY follows a failure classified retryable,
\* with retryCount + 1 <= maxRetries in the row it updates; it adds exactly
\* 1 to retryCount and stores the failure's message as failureReason.
C27_RetryTransition ==
    [][\A w \in Slots :
          LET t == workers[w].jobId IN
          (/\ workers[w].pc = "decide"
           /\ workers'[w].pc = "throw"
           /\ transactions'[t].status = RETRY)
              => /\ isRetryableError(workers[w].error)
                 /\ transactions[t].retryCount + 1 <= transactions[t].maxRetries
                 /\ transactions'[t].retryCount = transactions[t].retryCount + 1
                 /\ transactions'[t].failureReason = workers[w].error.message]_vars

(***************************************************************************)
(* Error kinds.                                                            *)
(***************************************************************************)
\* the ErrorKind column of the rule table, first matching row
RuleTableKind(error) ==
    IF \/ error.code \in {"ETIMEDOUT", "ECONNREFUSED", "ENOTFOUND", "ECONNRESET"}
       \/ Includes(error.message, "timeout")
       \/ Includes(error.message, "network")
    THEN "NETWORK_ERROR"
    ELSE IF error.statusCode = 429 \/ Includes(error.message, "rate limit")
    THEN "RATE_LIMIT"
    ELSE IF \/ error.statusCode \in {502, 503}
            \/ Includes(error.message, "service unavailable")
    THEN "NETWORK_ERROR"
    ELSE IF \/ error.statusCode \in {401, 403}
            \/ Includes(error.message, "unauthorized")
            \/ Includes(error.message, "forbidden")
    THEN "AUTHENTICATION_ERROR"
    ELSE IF \/ error.statusCode = 400
            \/ Includes(error.message, "invalid")
            \/ Includes(error.message, "not found")
            \/ Includes(error.message, "bad request")
    THEN "INVALID_DATA"
    ELSE IF error.provider
    THEN "PROVIDER_ERROR"
    ELSE "RETRYABLE"

\* C28: the errorType logged for an error is the ErrorKind of the first
\* matching row of the rule table.
C28_ErrorTypeFollowsRuleTable ==
    classified # NoClassification
        => classified.errorType = RuleTableKind(classified.error)

\* C29: an error logged as AUTHENTICATION_ERROR or INVALID_DATA is logged
\* with retryable = false, and one logged as NETWORK_ERROR or RATE_LIMIT
\* with retryable = true.
C29_ErrorTypeAgreesWithRetryable ==
    /\ classified.errorType \in {"AUTHENTICATION_ERROR", "INVALID_DATA"}
           => ~classified.retryable
    /\ classified.errorType \in {"NETWORK_ERROR", "RATE_LIMIT"}
           => classified.retryable

\* C30: the error a provider throws when its client was not initialized is
\* classified non-retryable.
C30_UnconfiguredProviderNotRetryable ==
    classified.error = TwilioNotInitialized => ~classified.retryable

(***************************************************************************)
(* Order of the writes of a delivery attempt.                              *)
(***************************************************************************)
\* the step of slot w that writes SENT, RETRY or DEAD_LETTER
WritesOutcome(w) ==
    \/ workers[w].pc = "sentUpdate" /\ workers'[w].pc = "return"
    \/ workers[w].pc = "decide" /\ workers'[w].pc = "throw"

\* C31: an attempt writes PROCESSING before it calls the provider; after a
\* provider failure the ErrorLog row is appended before the status leaves
\* PROCESSING; and SENT, RETRY and DEAD_LETTER are written only over
\* PROCESSING.
C31_OutcomeFollowsProcessing ==
    [][\A w \in Slots :
          LET t == workers[w].jobId IN
          /\ (workers[w].pc # "send" /\ workers'[w].pc = "send")
                 => /\ workers[w].pc = "start"
                    /\ transactions'[t].status = PROCESSING
          /\ (workers[w].pc # "decide" /\ workers'[w].pc = "decide")
                 => workers[w].pc = "logged"
          /\ (workers[w].pc # "logged" /\ workers'[w].pc = "logged")
                 => /\ workers[w].pc = "caught"
                    /\ errorLogs' = Append(errorLogs, errorLogs'[Len(errorLogs')])
                    /\ errorLogs'[Len(errorLogs')].transactionId = t
                    /\ transactions' = transactions
          /\ WritesOutcome(w) => transactions[t].status = PROCESSING]_vars

\* the first two parts of C31 taken alone
C31_OrderWithinAnAttempt ==
    [][\A w \in Slots :
          LET t == workers[w].jobId IN
          /\ (workers[w].pc # "send" /\ workers'[w].pc = "send")
                 => /\ workers[w].pc = "start"
                    /\ transactions'[t].status = PROCESSING
          /\ (workers[w].pc # "decide" /\ workers'[w].pc = "decide")
                 => workers[w].pc = "logged"
          /\ (workers[w].pc # "logged" /\ workers'[w].pc = "logged")
                 => /\ workers[w].pc = "caught"
                    /\ errorLogs' = Append(errorLogs, errorLogs'[Len(errorLogs')])
                    /\ errorLogs'[Len(errorLogs')].transactionId = t
                    /\ transactions' = transactions]_vars

C33_RetryCountIsAttemptsMade ==
    \A t \in TransactionIds :
        (transactions[t].status = RETRY /\ WorkersOn(t) = {})
            => transactions[t].retryCount = jobs[t].attemptsMade

\* C33 for the jobs that never stalled
C33_UnlessStalled ==
    \A t \in TransactionIds :
        (/\ transactions[t].status = RETRY
         /\ WorkersOn(t) = {}
         /\ jobs[t].stalledCount = 0)
            => transactions[t].retryCount = jobs[t].attemptsMade

(***************************************************************************)
(* Validation of a submission.                                             *)
(***************************************************************************)
\* the body has no userId, no content or no recipient
MissingRequired(body) ==
    body.userId = Null \/ body.content = Null \/ body.recipient = Null

\* C34: a POST /notifications/send whose body lacks userId, content or
\* recipient is answered with a validation error; it creates no transaction
\* row and adds no job.
C34_MissingFieldIsRejected ==
    [][(request.pc = "idle" /\ request' # request
            /\ MissingRequired(request'.dto))
          => /\ request'.reply.status = "invalid"
             /\ request'.pc = "idle"
             /\ transactions' = transactions
             /\ jobs' = jobs]_vars

\* a body that lacks only its recipient was rejected
C34_Witness ==
    /\ request.reply.status = "invalid"
    /\ request.dto.recipient = Null
    /\ request.dto.userId # Null
    /\ request.dto.content # Null
    /\ request.dto.notificationType # Null
    /\ request.dto.channel = EMAIL
    /\ transactions = <<>>

(***************************************************************************)
(* Frame of the transition to SENT.                                        *)
(***************************************************************************)
\* C35: the step that writes SENT puts providerResponse into the row's
\* metadata and leaves the other metadata keys, retryCount, channel and
\* priority of the row as they were.
C35_SentKeepsTheRest ==
    [][\A w \in Slots :
          LET t == workers[w].jobId IN
          (workers[w].pc = "sentUpdate" /\ workers'[w].pc = "return")
              => /\ transactions'[t].status = SENT
                 /\ "providerResponse" \in transactions'[t].metadata
                 /\ transactions'[t].metadata \ {"providerResponse"}
                        = transactions[t].metadata \ {"providerResponse"}
                 /\ transactions'[t].retryCount = transactions[t].retryCount
                 /\ transactions'[t].channel = transactions[t].channel
                 /\ transactions'[t].priority = transactions[t].priority]_vars

\* a transaction submitted with a metadata key was sent after one retry
C35_Witness ==
    \E t \in TransactionIds :
        /\ transactions[t].status = SENT
        /\ transactions[t].metadata = {"templateId", "providerResponse"}
        /\ transactions[t].retryCount = 1

(***************************************************************************)
(* Bulk submission against single submission.                              *)
(***************************************************************************)
\* C36: an item of a bulk request resolves the channel and the priority
\* that sendNotification resolves for the same body and preferences
\* (EffChannel, EffPriority), and its job goes to the queue of that priority.
C36_BulkResolvesAsSingle ==
    [][\A i \in 1..Len(bulk.items) :
          (/\ bulk'.pc = "running"
           /\ bulk.items[i].pc = "created"
           /\ bulk'.items[i].pc = "resolved")
              => LET dto == bulk.items[i].dto
                     row == PreferencesOf(preferences', dto.userId)
                     channel == EffChannel(dto, row)
                     priority == EffPriority(dto, row, channel)
                 IN  /\ bulk'.items[i].channel = channel
                     /\ bulk'.items[i].priority = priority
                     /\ QueueFor([priority |-> bulk'.items[i].priority])
                            = QueueFor([priority |-> priority])]_vars

\* the channel half of C36
C36_BulkChannelAsSingle ==
    [][\A i \in 1..Len(bulk.items) :
          (/\ bulk'.pc = "running"
           /\ bulk.items[i].pc = "created"
           /\ bulk'.items[i].pc = "resolved")
              => LET dto == bulk.items[i].dto
                     row == PreferencesOf(preferences', dto.userId)
                 IN  bulk'.items[i].channel = EffChannel(dto, row)]_vars

(***************************************************************************)
(* The preference reads of a bulk item.                                    *)
(***************************************************************************)
\* C37: the preference reads of a bulk item never make the item fail (an
\* item that has its transaction goes on to the enqueue), whether or not
\* the user has a stored row, and the user has one row afterwards.
C37_PreferenceReadsNeverFailAnItem ==
    [][\A i \in 1..Len(bulk.items) :
          (bulk'.pc = "running" /\ bulk.items[i].pc = "created")
              => /\ bulk'.items[i].result # "error"
                 /\ bulk'.items[i].pc = "resolved"
                        => Cardinality(RowsOf(preferences',
                                              bulk.items[i].dto.userId)) = 1]_vars

C39_ClassifierCopiesAgree ==
    classified # NoClassification
        => classified.retryable = errorUtilsIsRetryableError(classified.error)

\* C39 for the errors that carry only a code or only a status code other
\* than 502
C39_AgreeOnCodesAndStatuses ==
    (/\ classified # NoClassification
     /\ classified.error.message = Null
     /\ classified.error.code = Null \/ classified.error.statusCode = 0
     /\ classified.error.statusCode # 502)
        => classified.retryable = errorUtilsIsRetryableError(classified.error)

====
